---- MODULE Spec2Model ----
(***************************************************************************)
(* Model of the Amazon SP-API data synchronisation pipeline (datatodb):    *)
(* the two orchestrators main.main and lambda_function.lambda_handler,     *)
(* the source fetchers (OrdersManager, FinancesManager), the wide-column   *)
(* adapter (GoogleCloudUtils), the spreadsheet adapter (GoogleSheetsUtils) *)
(* and the notifier (NotificationManager).                                 *)
(***************************************************************************)
EXTENDS Integers, Sequences, FiniteSets, TLC

VARIABLES
    entry,            \* entry point of the current run: "main" | "lambda" | "none"
    pc,               \* position of the current run in its entry point
    cfg,              \* config/config.json of the run: which sections are usable
    notification,     \* main.py local `notification`: "unbound" | "bound"
    upOrders,         \* upstream: raw orders in the payload of the API's response
    upEvents,         \* upstream: raw financial events in the payload of the API's response
    orders,           \* local `orders` (result of get_orders)
    financial_events, \* local `financial_events` (result of get_financial_events)
    idx,              \* position of the running for-loop over orders / events
    bigtable,         \* wide-column store: table name -> [exists, maxv, rows]
    sheets,           \* spreadsheet: sheet name -> [exists, cells]
    error,            \* the exception `e` being handled ("none" when there is none)
    sent,             \* send_email invocations of this run, in order
    did,              \* upstream and sink operations invoked in this run
    accepted,         \* (sink, record type) pairs a sink accepted in this run
    failedAt,         \* (sink, record type) pairs whose sink raised in this run
    degraded,         \* record types whose fetch failed in this run
    result,           \* what the entry point handed to its caller
    synced,           \* TRUE once a run that fetched both record types has succeeded
    batch,            \* adapter harness: the batch under test
    calls,            \* adapter harness: log of the adapter calls made
    files,            \* flat-file store: file path -> [header, rows] of the CSV file
    clock,            \* wall clock as datetime.now() last read it: [sec, frac]
    oauth,            \* get_refresh_token: the callback server, its thread and the code
    runs              \* overlapping runs: each run's position inside create_table

vars == <<entry, pc, cfg, notification, upOrders, upEvents, orders, financial_events,
          idx, bigtable, sheets, error, sent, did, accepted, failedAt, degraded,
          result, synced, batch, calls, files, clock, oauth, runs>>

----------------------------------------------------------------------------
(* Bounds of the model *)

MaxOrders == 2
MaxEvents == 2
NumUuids == 2
MaxBatch == 2

(* Program constants *)

MaxVersions == 1
ZZCols == 702

----------------------------------------------------------------------------
(* Python values.  Every value is a record [t, v]: t is the Python type,   *)
(* v the text str() gives for it.  "missing" is a key absent from a dict.  *)

PyNone == [t |-> "none", v |-> "None"]
Missing == [t |-> "missing", v |-> ""]
PyStr(s) == [t |-> "str", v |-> s]
PyDict(s) == [t |-> "dict", v |-> s]

\* dict.get(key): None when the key is absent
Get(x) == IF x.t = "missing" THEN PyNone ELSE x

\* str(value)
Str(x) == x.v

----------------------------------------------------------------------------
(* Upstream data: raw orders and raw financial events of the marketplace.  *)

EmptyDict == [t |-> "dict", v |-> "{}"]

RawOrder(id, status, total, addr) ==
    [AmazonOrderId |-> id, PurchaseDate |-> PyStr("2024-01-01"),
     OrderStatus |-> status, OrderTotal |-> total, ShippingAddress |-> addr]

RawOrders ==
    << RawOrder(PyStr("A1"), PyStr("Shipped"), PyDict("10"), PyDict("{'City': 'X'}")),
       RawOrder(Missing, PyStr("Pending"), Missing, Missing),
       RawOrder(PyStr("A2"), PyStr("Pending"), PyNone, Missing) >>

RawEvent(type, amount) ==
    [FinancialEventType |-> type, PostedDate |-> PyStr("2024-01-02"), Amount |-> amount]

RawEvents ==
    << RawEvent(PyStr("Refund"), PyDict("5")),
       RawEvent(Missing, Missing) >>

SeqsUpTo(S, n) == UNION { [1..k -> S] : k \in 0..n }

\* the upstream result sets: at most n of the sample records, each order at
\* most once (an order has one AmazonOrderId), events possibly repeated (two
\* events can agree on every field)
Picks(samples, n, repeats) ==
    { ix \in SeqsUpTo(1..Len(samples), n) :
        \A i, j \in 1..Len(ix) : i < j => (ix[i] < ix[j] \/ (repeats /\ ix[i] = ix[j])) }

Upstreams(samples, n, repeats) ==
    { [i \in 1..Len(ix) |-> samples[ix[i]]] : ix \in Picks(samples, n, repeats) }

\* the Amount / CurrencyCode of an amount dict ({} has neither)
AmountOf(d) == IF d = EmptyDict THEN PyNone ELSE PyStr(d.v)
CurrencyOf(d) == IF d = EmptyDict THEN PyNone ELSE PyStr("USD")

\* order.get('OrderTotal', {}): the default only replaces an absent key
GetOrDict(x) == IF x.t = "missing" THEN EmptyDict ELSE x

\* x.get(...) raises AttributeError unless x is a dict
GetRaises(x) == GetOrDict(x).t # "dict"

NormalizeOrder(raw) ==
    [order_id |-> Get(raw.AmazonOrderId),
     purchase_date |-> Get(raw.PurchaseDate),
     order_status |-> Get(raw.OrderStatus),
     order_total |-> AmountOf(GetOrDict(raw.OrderTotal)),
     shipping_address |-> Get(raw.ShippingAddress)]

NormalizeEvent(raw) ==
    [event_type |-> Get(raw.FinancialEventType),
     posted_date |-> Get(raw.PostedDate),
     amount |-> AmountOf(GetOrDict(raw.Amount)),
     currency |-> CurrencyOf(GetOrDict(raw.Amount))]

\* OrdersManager.get_orders: every exception inside the try gives []
get_orders(up, apiRaises) ==
    IF apiRaises \/ \E i \in 1..Len(up) : GetRaises(up[i].OrderTotal)
    THEN <<>>
    ELSE [i \in 1..Len(up) |-> NormalizeOrder(up[i])]

OrdersFetchFailed(up, apiRaises) ==
    apiRaises \/ \E i \in 1..Len(up) : GetRaises(up[i].OrderTotal)

\* FinancesManager.get_financial_events: every exception inside the try gives []
get_financial_events(up, apiRaises) ==
    IF apiRaises \/ \E i \in 1..Len(up) : GetRaises(up[i].Amount)
    THEN <<>>
    ELSE [i \in 1..Len(up) |-> NormalizeEvent(up[i])]

EventsFetchFailed(up, apiRaises) ==
    apiRaises \/ \E i \in 1..Len(up) : GetRaises(up[i].Amount)

----------------------------------------------------------------------------
(* Wide-column adapter (GoogleCloudUtils).  A table is [exists, maxv,      *)
(* rows]; rows maps a row key to its cells; a cell (one column of the      *)
(* 'data' family) is the sequence of its stored versions, newest first.    *)
(* A cell keeps at most maxv versions, the family's garbage-collection     *)
(* rule; row.commit() applies all cells of one row or none.                *)

TableNames == {"amazon_orders", "amazon_finances"}

NoTable == [exists |-> FALSE, maxv |-> 0, rows |-> <<>>]

Take(s, n) == IF Len(s) <= n THEN s ELSE SubSeq(s, 1, n)

\* create_table with a garbage-collection rule that keeps one version more
create_table_keeps_more(bt, name) ==
    IF bt[name].exists
    THEN bt
    ELSE [bt EXCEPT ![name] = [exists |-> TRUE, maxv |-> MaxVersions + 1, rows |-> <<>>]]

\* create_table that issues the create request whether or not the table exists
create_table_recreates(bt, name) ==
    [bt EXCEPT ![name] = [exists |-> TRUE, maxv |-> MaxVersions, rows |-> <<>>]]

\* create_table: create-if-absent, one family 'data' with MaxVersionsGCRule(1)
create_table(bt, name) ==
    IF bt[name].exists
    THEN bt
    ELSE [bt EXCEPT ![name] = [exists |-> TRUE, maxv |-> MaxVersions, rows |-> <<>>]]

\* row.set_cell for every item of data, then row.commit()
SetCells(row, data, maxv) ==
    [c \in (DOMAIN row) \cup (DOMAIN data) |->
        IF c \in DOMAIN data
        THEN Take(<<Str(data[c])>> \o (IF c \in DOMAIN row THEN row[c] ELSE <<>>), maxv)
        ELSE row[c]]

RowOf(tbl, key) == IF key \in DOMAIN tbl.rows THEN tbl.rows[key] ELSE <<>>

write_to_bigtable(bt, name, row_key, data) ==
    LET tbl == bt[name]
        newRow == SetCells(RowOf(tbl, row_key), data, tbl.maxv)
    IN [bt EXCEPT ![name].rows =
            [k \in (DOMAIN tbl.rows) \cup {row_key} |->
                IF k = row_key THEN newRow ELSE tbl.rows[k]]]

OrderRowKey(order) == "order_" \o Str(order.order_id)

Uuids == 1..NumUuids
UuidHex(u) == IF u = 1 THEN "a1" ELSE IF u = 2 THEN "b2" ELSE IF u = 3 THEN "c3" ELSE "d4"
FinanceRowKey(u) == "finance_" \o UuidHex(u)

----------------------------------------------------------------------------
(* Spreadsheet adapter (GoogleSheetsUtils).  A sheet is [exists, cells];   *)
(* cells is the set of its non-empty cells <<row, column, text>>.          *)

SheetNames == {"Orders", "Finances"}

NoSheet == [exists |-> FALSE, cells |-> {}]
EmptySheet == [exists |-> TRUE, cells |-> {}]

OrderCols == <<"order_id", "purchase_date", "order_status", "order_total", "shipping_address">>
EventCols == <<"event_type", "posted_date", "amount", "currency">>

\* pd.DataFrame(data).columns: the keys of the records, in insertion order
Cols(data) ==
    IF Len(data) = 0 THEN <<>>
    ELSE IF "order_id" \in DOMAIN data[1] THEN OrderCols ELSE EventCols

\* values = [df.columns.tolist()] + df.values.tolist()
Values(data) ==
    LET cols == Cols(data)
    IN <<[j \in 1..Len(cols) |-> PyStr(cols[j])]>> \o
       [i \in 1..Len(data) |-> [j \in 1..Len(cols) |-> data[i][cols[j]]]]

\* values().clear(range='<sheet>!A1:ZZ')
ClearRange(cells) == {x \in cells : x[2] > ZZCols}

\* values().update(range='<sheet>!A1', valueInputOption='RAW'): a null value
\* leaves its cell as it is, any other value replaces the cell's text
UpdateRange(cells, values) ==
    LET written == {rc \in UNION {{<<r, c>> : c \in 1..Len(values[r])} : r \in 1..Len(values)} :
                        values[rc[1]][rc[2]].t # "none"}
    IN {x \in cells : <<x[1], x[2]>> \notin written}
         \cup {<<rc[1], rc[2], Str(values[rc[1]][rc[2]])>> : rc \in written}

\* the ways one call can end: the clear request raises (always, when the sheet
\* does not exist: the range cannot be parsed), the update request raises, or
\* both requests succeed and the call returns True
SheetOutcomes(sh, name) ==
    IF sh[name].exists THEN {"clear_raises", "update_raises", "ok"} ELSE {"clear_raises"}

\* create_or_update_sheet without the clear request
update_sheet_without_clear(sh, name, data, outcome) ==
    IF outcome = "clear_raises" THEN sh
    ELSE IF outcome = "update_raises"
         THEN sh
         ELSE [sh EXCEPT ![name].cells = UpdateRange(@, Values(data))]

create_or_update_sheet(sh, name, data, outcome) ==
    IF outcome = "clear_raises" THEN sh
    ELSE IF outcome = "update_raises"
         THEN [sh EXCEPT ![name].cells = ClearRange(@)]
         ELSE [sh EXCEPT ![name].cells = UpdateRange(ClearRange(@), Values(data))]

----------------------------------------------------------------------------
(* The orchestrators: main.main and lambda_function.lambda_handler.        *)

Entries == {"main", "lambda"}

Configs == [sp_api : BOOLEAN, google_cloud : BOOLEAN, email : BOOLEAN]

\* The text of a notification or of a return body.  A success text carries
\* the two counts the f-string formats, an error text carries str(e); the
\* fields a text does not carry hold 0 / "none".
SuccessMessage(n_orders, n_events) ==
    [kind |-> "success", orders |-> n_orders, finances |-> n_events, error |-> "none"]

ErrorMessage(e) == [kind |-> "error", orders |-> 0, finances |-> 0, error |-> e]

NoMessage == [kind |-> "none", orders |-> 0, finances |-> 0, error |-> "none"]

NoResult == [kind |-> "none", status |-> "none", err |-> "none", body |-> NoMessage]

\* one send_email invocation: ok when it returned True; delivered when
\* server.send_message(msg) went through (server.quit() can still raise)
Sending(subject, msg, ok, delivered) ==
    [subject |-> subject, msg |-> msg, ok |-> ok, delivered |-> delivered]

\* the first constructor that raises, in construction order; envFail is a
\* constructor the environment (not the configuration file) makes fail
FailingConstructor(c, envFail) ==
    IF ~c.sp_api THEN "SPAPIAuth"
    ELSE IF ~c.google_cloud THEN "GoogleCloudUtils"
    ELSE IF envFail = "GoogleSheetsUtils" THEN "GoogleSheetsUtils"
    ELSE IF ~c.email THEN "NotificationManager"
    ELSE envFail

\* main.py: `notification` is assigned once NotificationManager() has returned
BoundAfter(failing) ==
    IF failing \in {"none", "OrdersManager", "FinancesManager"} THEN "bound" ELSE "unbound"

Persistent == <<upOrders, upEvents, bigtable, sheets>>

Harness == <<batch, calls, files, clock, oauth, runs>>

\* get_refresh_token not called: no server, no thread, no code
NoOAuth == [thread |-> "not_started", authorization_code |-> "None", handled |-> 0,
            is_shut_down |-> FALSE, shutdown_request |-> FALSE, exchange |-> "none",
            pending |-> "none"]

NoRuns == <<>>

Aux == <<oauth, runs>>

NoFiles == <<>>

Epoch == [sec |-> 0, frac |-> 0]

Init ==
    /\ entry = "none"
    /\ pc = "start"
    /\ cfg = [sp_api |-> TRUE, google_cloud |-> TRUE, email |-> TRUE]
    /\ notification = "unbound"
    /\ upOrders \in Upstreams(RawOrders, MaxOrders, FALSE)
    /\ upEvents \in Upstreams(RawEvents, MaxEvents, TRUE)
    /\ orders = <<>>
    /\ financial_events = <<>>
    /\ idx = 0
    /\ bigtable = [n \in TableNames |-> NoTable]
    /\ sheets \in {[n \in SheetNames |-> NoSheet], [n \in SheetNames |-> EmptySheet]}
    /\ error = "none"
    /\ sent = <<>>
    /\ did = {}
    /\ accepted = {}
    /\ failedAt = {}
    /\ degraded = {}
    /\ result = NoResult
    /\ synced = FALSE
    /\ batch = <<>>
    /\ calls = <<>>
    /\ files = NoFiles
    /\ clock = Epoch
    /\ oauth = NoOAuth
    /\ runs = NoRuns

\* a scheduler invokes an entry point; every run starts from fresh locals
Begin(e, c) ==
    /\ pc \in {"start", "done"}
    /\ entry' = e
    /\ cfg' = c
    /\ pc' = "init"
    /\ notification' = "unbound"
    /\ orders' = <<>>
    /\ financial_events' = <<>>
    /\ idx' = 0
    /\ error' = "none"
    /\ sent' = <<>>
    /\ did' = {}
    /\ accepted' = {}
    /\ failedAt' = {}
    /\ degraded' = {}
    /\ result' = NoResult
    /\ UNCHANGED <<Persistent, synced, Harness>>

\* main.py 19-26 / lambda_function.py 32-39: the six constructors
Construct(envFail) ==
    /\ pc = "init"
    /\ LET failing == FailingConstructor(cfg, envFail)
       IN /\ notification' = BoundAfter(failing)
          /\ error' = IF failing = "none" THEN "none" ELSE "config"
          /\ pc' = IF failing = "none" THEN "create_orders_table" ELSE "except"
    /\ UNCHANGED <<entry, cfg, orders, financial_events, idx, sent, did, accepted,
                   failedAt, degraded, result, Persistent, synced, Harness>>

TableAt(p) == IF p = "create_orders_table" THEN "amazon_orders" ELSE "amazon_finances"

\* google_cloud.create_table(name); the admin request may raise
CreateTable(ok) ==
    /\ pc \in {"create_orders_table", "create_finances_table"}
    /\ did' = did \cup {"create_table"}
    /\ IF ok
       THEN /\ bigtable' = create_table(bigtable, TableAt(pc))
            /\ pc' = IF pc = "create_orders_table" THEN "create_finances_table" ELSE "fetch_orders"
            /\ error' = error
       ELSE /\ bigtable' = bigtable
            /\ pc' = "except"
            /\ error' = "create_table"
    /\ UNCHANGED <<entry, cfg, notification, orders, financial_events, idx, sent, accepted,
                   failedAt, degraded, result, upOrders, upEvents, sheets, synced, Harness>>

AfterFinances == IF entry = "main" THEN "sheet_orders" ELSE "notify_ok"

\* FetchOrders with a get_orders that lets the upstream failure propagate
FetchOrdersRaising(apiRaises) ==
    /\ pc = "fetch_orders"
    /\ did' = did \cup {"get_orders"}
    /\ orders' = get_orders(upOrders, apiRaises)
    /\ degraded' = IF OrdersFetchFailed(upOrders, apiRaises) THEN degraded \cup {"orders"} ELSE degraded
    /\ idx' = 1
    /\ error' = IF OrdersFetchFailed(upOrders, apiRaises) THEN "fetch" ELSE error
    /\ pc' = IF OrdersFetchFailed(upOrders, apiRaises) THEN "except"
             ELSE IF Len(orders') = 0 THEN "fetch_finances" ELSE "write_orders"
    /\ UNCHANGED <<entry, cfg, notification, financial_events, sent, accepted,
                   failedAt, result, Persistent, synced, Harness>>

\* orders = orders_manager.get_orders()
FetchOrders(apiRaises) ==
    /\ pc = "fetch_orders"
    /\ did' = did \cup {"get_orders"}
    /\ orders' = get_orders(upOrders, apiRaises)
    /\ degraded' = IF OrdersFetchFailed(upOrders, apiRaises) THEN degraded \cup {"orders"} ELSE degraded
    /\ idx' = 1
    /\ pc' = IF Len(orders') = 0 THEN "fetch_finances" ELSE "write_orders"
    /\ UNCHANGED <<entry, cfg, notification, financial_events, error, sent, accepted,
                   failedAt, result, Persistent, synced, Harness>>

\* WriteOrder with a loop body that swallows the exception of a failed
\* write and goes on with the next order
WriteOrderSwallowing(ok) ==
    /\ pc = "write_orders"
    /\ did' = did \cup {"write_to_bigtable"}
    /\ bigtable' = IF ok THEN write_to_bigtable(bigtable, "amazon_orders",
                                                OrderRowKey(orders[idx]), orders[idx])
                   ELSE bigtable
    /\ failedAt' = IF ok THEN failedAt ELSE failedAt \cup {<<"bigtable", "orders">>}
    /\ idx' = idx + 1
    /\ pc' = IF idx = Len(orders) THEN "fetch_finances" ELSE pc
    /\ accepted' = IF idx = Len(orders) /\ failedAt' = {}
                   THEN accepted \cup {<<"bigtable", "orders">>} ELSE accepted
    /\ UNCHANGED <<entry, cfg, notification, orders, financial_events, error, sent, degraded,
                   result, upOrders, upEvents, sheets, synced, Harness>>

\* one iteration of `for order in orders`: row key, then write_to_bigtable
WriteOrder(ok) ==
    /\ pc = "write_orders"
    /\ did' = did \cup {"write_to_bigtable"}
    /\ IF ok
       THEN /\ bigtable' = write_to_bigtable(bigtable, "amazon_orders",
                                             OrderRowKey(orders[idx]), orders[idx])
            /\ idx' = idx + 1
            /\ pc' = IF idx = Len(orders) THEN "fetch_finances" ELSE pc
            /\ accepted' = IF idx = Len(orders) THEN accepted \cup {<<"bigtable", "orders">>}
                           ELSE accepted
            /\ UNCHANGED <<failedAt, error>>
       ELSE /\ failedAt' = failedAt \cup {<<"bigtable", "orders">>}
            /\ error' = "sink"
            /\ pc' = "except"
            /\ UNCHANGED <<bigtable, idx, accepted>>
    /\ UNCHANGED <<entry, cfg, notification, orders, financial_events, sent, degraded,
                   result, upOrders, upEvents, sheets, synced, Harness>>

\* financial_events = finances_manager.get_financial_events()
FetchFinances(apiRaises) ==
    /\ pc = "fetch_finances"
    /\ did' = did \cup {"get_financial_events"}
    /\ financial_events' = get_financial_events(upEvents, apiRaises)
    /\ degraded' = IF EventsFetchFailed(upEvents, apiRaises) THEN degraded \cup {"finances"} ELSE degraded
    /\ idx' = 1
    /\ pc' = IF Len(financial_events') = 0 THEN AfterFinances ELSE "write_finances"
    /\ UNCHANGED <<entry, cfg, notification, orders, error, sent, accepted,
                   failedAt, result, Persistent, synced, Harness>>

\* one iteration of `for event in financial_events`: uuid4 row key, then write
WriteEvent(u, ok) ==
    /\ pc = "write_finances"
    /\ did' = did \cup {"write_to_bigtable"}
    /\ IF ok
       THEN /\ bigtable' = write_to_bigtable(bigtable, "amazon_finances",
                                             FinanceRowKey(u), financial_events[idx])
            /\ idx' = idx + 1
            /\ pc' = IF idx = Len(financial_events) THEN AfterFinances ELSE pc
            /\ accepted' = IF idx = Len(financial_events)
                           THEN accepted \cup {<<"bigtable", "finances">>} ELSE accepted
            /\ UNCHANGED <<failedAt, error>>
       ELSE /\ failedAt' = failedAt \cup {<<"bigtable", "finances">>}
            /\ error' = "sink"
            /\ pc' = "except"
            /\ UNCHANGED <<bigtable, idx, accepted>>
    /\ UNCHANGED <<entry, cfg, notification, orders, financial_events, sent, degraded,
                   result, upOrders, upEvents, sheets, synced, Harness>>

\* main.py 52-63: the two create_or_update_sheet calls; a spreadsheet_id
\* missing from the configuration raises before the clear request, like a
\* clear request that raises
UpdateSheet(outcome) ==
    /\ pc \in {"sheet_orders", "sheet_finances"}
    /\ LET name == IF pc = "sheet_orders" THEN "Orders" ELSE "Finances"
           type == IF pc = "sheet_orders" THEN "orders" ELSE "finances"
           data == IF pc = "sheet_orders" THEN orders ELSE financial_events
       IN /\ outcome \in SheetOutcomes(sheets, name)
          /\ sheets' = create_or_update_sheet(sheets, name, data, outcome)
          /\ IF outcome = "ok"
             THEN /\ accepted' = accepted \cup {<<"sheets", type>>}
                  /\ pc' = IF pc = "sheet_orders" THEN "sheet_finances" ELSE "notify_ok"
                  /\ UNCHANGED <<failedAt, error>>
             ELSE /\ failedAt' = failedAt \cup {<<"sheets", type>>}
                  /\ error' = "sink"
                  /\ pc' = "except"
                  /\ UNCHANGED accepted
    /\ did' = did \cup {"create_or_update_sheet"}
    /\ UNCHANGED <<entry, cfg, notification, orders, financial_events, idx, sent, degraded,
                   result, upOrders, upEvents, bigtable, synced, Harness>>

Completed == "Amazon SP-API Data Sync Completed"
Failed == "ERROR: Amazon SP-API Data Sync Failed"

\* main.py 66-77 / lambda_function.py 75-94: the success notification and
\* the normal return; send_email raises when the SMTP exchange fails
NotifyOk(ok) ==
    /\ pc = "notify_ok"
    /\ IF entry = "lambda" /\ ~cfg.email
       THEN /\ error' = "config"
            /\ pc' = "except"
            /\ UNCHANGED <<sent, result, synced>>
       ELSE /\ \E delivered \in BOOLEAN :
                    /\ ok => delivered
                    /\ sent' = Append(sent, Sending(Completed,
                                    SuccessMessage(Len(orders), Len(financial_events)),
                                    ok, delivered))
            /\ IF ok
               THEN /\ result' = [kind |-> "return",
                                  status |-> IF entry = "lambda" THEN "200" ELSE "None",
                                  err |-> "none",
                                  body |-> IF entry = "lambda"
                                           THEN SuccessMessage(Len(orders), Len(financial_events))
                                           ELSE NoMessage]
                    /\ pc' = "done"
                    /\ synced' = (synced \/ degraded = {})
                    /\ error' = error
               ELSE /\ error' = "notify"
                    /\ pc' = "except"
                    /\ UNCHANGED <<result, synced>>
    /\ UNCHANGED <<entry, cfg, notification, orders, financial_events, idx, did, accepted,
                   failedAt, degraded, Persistent, Harness>>

\* MainExcept with a handler that, after the error notification, goes on to
\* the spreadsheet updates the run has not made yet
MainExceptThenSheets(ok) ==
    /\ pc = "except"
    /\ entry = "main"
    /\ IF notification = "unbound"
       THEN /\ result' = [kind |-> "raise", status |-> "none", err |-> "UnboundLocalError",
                          body |-> NoMessage]
            /\ sent' = sent
       ELSE /\ \E delivered \in BOOLEAN :
                    /\ ok => delivered
                    /\ sent' = Append(sent, Sending(Failed, ErrorMessage(error), ok, delivered))
            /\ result' = [kind |-> "raise", status |-> "none",
                          err |-> IF ok THEN error ELSE "notify", body |-> NoMessage]
    /\ pc' = IF notification = "unbound" \/ "create_or_update_sheet" \in did \/ Len(sent) > 0
             THEN "done" ELSE "sheet_orders"
    /\ synced' = synced
    /\ UNCHANGED <<entry, cfg, notification, orders, financial_events, idx, error, did,
                   accepted, failedAt, degraded, Persistent, Harness>>

\* main.py 79-88: log, send the error notification, re-raise
MainExcept(ok) ==
    /\ pc = "except"
    /\ entry = "main"
    /\ IF notification = "unbound"
       THEN /\ result' = [kind |-> "raise", status |-> "none", err |-> "UnboundLocalError",
                          body |-> NoMessage]
            /\ sent' = sent
       ELSE /\ \E delivered \in BOOLEAN :
                    /\ ok => delivered
                    /\ sent' = Append(sent, Sending(Failed, ErrorMessage(error), ok, delivered))
            /\ result' = [kind |-> "raise", status |-> "none",
                          err |-> IF ok THEN error ELSE "notify", body |-> NoMessage]
    /\ pc' = "done"
    /\ synced' = synced
    /\ UNCHANGED <<entry, cfg, notification, orders, financial_events, idx, error, did,
                   accepted, failedAt, degraded, Persistent, Harness>>

\* lambda_function.py 96-115: log, try to send the error notification (a
\* failure of that is logged), return statusCode 500
LambdaExcept(ok) ==
    /\ pc = "except"
    /\ entry = "lambda"
    /\ IF cfg.email
       THEN \E delivered \in BOOLEAN :
                /\ ok => delivered
                /\ sent' = Append(sent, Sending(Failed, ErrorMessage(error), ok, delivered))
       ELSE sent' = sent
    /\ result' = [kind |-> "return", status |-> "500", err |-> error,
                  body |-> ErrorMessage(error)]
    /\ pc' = "done"
    /\ synced' = synced
    /\ UNCHANGED <<entry, cfg, notification, orders, financial_events, idx, error, did,
                   accepted, failedAt, degraded, Persistent, Harness>>

EnvFailures == {"none", "GoogleSheetsUtils", "OrdersManager", "FinancesManager"}

Next ==
    \/ \E e \in Entries, c \in Configs : Begin(e, c)
    \/ \E f \in EnvFailures : Construct(f)
    \/ \E ok \in BOOLEAN : CreateTable(ok)
    \/ \E r \in BOOLEAN : FetchOrders(r)
    \/ \E ok \in BOOLEAN : WriteOrder(ok)
    \/ \E r \in BOOLEAN : FetchFinances(r)
    \/ \E u \in Uuids, ok \in BOOLEAN : WriteEvent(u, ok)
    \/ \E o \in {"clear_raises", "update_raises", "ok"} : UpdateSheet(o)
    \/ \E ok \in BOOLEAN : NotifyOk(ok)
    \/ \E ok \in BOOLEAN : MainExcept(ok)
    \/ \E ok \in BOOLEAN : LambdaExcept(ok)

Spec == Init /\ [][Next]_vars

----------------------------------------------------------------------------
(* Properties of the orchestrators, checked under Spec.                    *)

Succeeded == result.kind = "return" /\ result.status \in {"None", "200"}

\* C1: in every run the notifier's send is invoked exactly once, whichever
\* stage failed or succeeded.
C1_NotifiedExactlyOnce == pc = "done" => Len(sent) = 1

\* C2: every run hands its caller a return value; no exception leaves the
\* entry point.
C2_NoExceptionEscapes == pc = "done" => result.kind = "return"

\* C3: a failed notification send is only logged: a run whose stages all
\* succeeded (it reached the success notification) still reports success,
\* and a failed run still reports the error that failed it.
C3_NotifyFailureOnlyLogged ==
    (pc = "done" /\ sent # <<>>) =>
        /\ (sent[1].subject = Completed => Succeeded)
        /\ (sent[1].subject = Failed => result.err = error)

RowKeys(t) == DOMAIN bigtable[t].rows

\* C4: row keys are a deterministic function of the records' identity, so
\* once a run has synchronised the (unchanged) upstream data set, no later
\* run adds a row to either table.
C4_RerunConverges ==
    [][synced => \A t \in TableNames : DOMAIN bigtable'[t].rows = RowKeys(t)]_vars

BothSheets == {<<"sheets", "orders">>, <<"sheets", "finances">>}

BatchOf(type) == IF type = "orders" THEN orders ELSE financial_events

\* C7: a sink failure is recorded against that sink only: when the
\* wide-column sink raises, the spreadsheet sink still receives both batches
\* (and when the spreadsheet sink raises, the wide-column sink has received
\* every non-empty batch).
C7_SinkFailureIsolated ==
    (pc = "done" /\ entry = "main") =>
        /\ ((\E p \in failedAt : p[1] = "bigtable") => BothSheets \subseteq accepted)
        /\ ((\E p \in failedAt : p[1] = "sheets") =>
                \A type \in {"orders", "finances"} :
                    <<"bigtable", type>> \in accepted \/ Len(BatchOf(type)) = 0)

\* C8: a run fails on a sink error only when no sink accepted any record
\* type; a run in which some sink accepted some batch does not end FAILED.
C8_FailedOnlyOnTotalFailure == (pc = "done" /\ error = "sink") => accepted = {}

\* C9: a construction failure takes the run directly to FAILED with the
\* configuration error as its outcome, with no upstream fetch, no table
\* creation and no sink write.
C9_ConstructionFailureSkipsWork ==
    (pc = "done" /\ error = "config") =>
        /\ ~Succeeded
        /\ result.err = "config"
        /\ did = {}

\* C10: a fetch step never moves the run to its exception handler: when the
\* upstream call (or the reading of its payload) fails, the fetch yields the
\* empty sequence, the order fetch is followed by the financial-event fetch
\* and the financial-event fetch by the persist / notify stage.
C10_FetchFailureIsolated ==
    [][/\ (pc = "fetch_orders" =>
              /\ pc' \in {"write_orders", "fetch_finances"}
              /\ error' = "none"
              /\ ("orders" \in degraded' => (orders' = <<>> /\ pc' = "fetch_finances")))
       /\ (pc = "fetch_finances" =>
              /\ pc' \in {"write_finances", "sheet_orders", "notify_ok"}
              /\ error' = "none"
              /\ ("finances" \in degraded' =>
                     (financial_events' = <<>> /\ pc' \in {"sheet_orders", "notify_ok"})))]_vars

\* C11: a failed fetch is reported as degraded: a run whose fetch failed
\* and which sent the success notification does not report the plain
\* success text (counts only) that a run with an empty upstream reports.
C11_DegradedReported ==
    (pc = "done" /\ sent # <<>> /\ sent[1].subject = Completed /\ degraded # {}) =>
        /\ sent[1].msg # SuccessMessage(Len(orders), Len(financial_events))
        /\ (Succeeded => result.body # SuccessMessage(Len(orders), Len(financial_events)))

\* C12: a run whose fetches both succeeded and whose sinks all succeeded
\* (it reached the success notification) reports overall success, with the
\* numbers of fetched orders and financial events as its counts.
C12_SuccessReportsCounts ==
    (pc = "done" /\ sent # <<>> /\ sent[1].subject = Completed /\ degraded = {}) =>
        /\ Succeeded
        /\ sent[1].msg = SuccessMessage(Len(orders), Len(financial_events))
        /\ (entry = "lambda" =>
                result.body = SuccessMessage(Len(orders), Len(financial_events)))

Delivered(subject) == \E i \in 1..Len(sent) : sent[i].subject = subject /\ sent[i].delivered

\* C13: a run in which a sink raised ends FAILED and never sends the success
\* message; and the success message is delivered only in runs that did not
\* fail.
C13_MessageMatchesOutcome ==
    pc = "done" =>
        /\ (failedAt # {} => (~Succeeded /\ \A i \in 1..Len(sent) : sent[i].subject = Failed))
        /\ (Delivered(Completed) => Succeeded)

\* C21: a create_table call that returns leaves its table existing with the
\* family 'data' limited to one version; on an absent table the new table
\* is empty, on an existing table nothing changes; and no run reaches a row
\* write before both tables exist.
C21_CreateIfAbsent ==
    [][/\ (pc \in {"create_orders_table", "create_finances_table"} /\ pc' # "except") =>
              /\ bigtable'[TableAt(pc)].exists
              /\ bigtable'[TableAt(pc)].maxv = MaxVersions
              /\ \A t \in TableNames \ {TableAt(pc)} : bigtable'[t] = bigtable[t]
              /\ IF bigtable[TableAt(pc)].exists
                 THEN bigtable' = bigtable
                 ELSE bigtable'[TableAt(pc)].rows = <<>>
       /\ pc' \in {"write_orders", "write_finances"} =>
              \A t \in TableNames : bigtable'[t].exists]_vars

\* C21 witness: a later run has passed both create_table calls on tables
\* that already held rows.
C21_Witness ==
    /\ synced
    /\ pc = "fetch_orders"
    /\ \A t \in TableNames : bigtable[t].rows # <<>>

\* C22: a run makes no sink write (a row write or a sheet update) before both
\* its order fetch and its financial-event fetch have been made.
C22_FetchBeforePersist ==
    (did \cap {"write_to_bigtable", "create_or_update_sheet"} # {}) =>
        {"get_orders", "get_financial_events"} \subseteq did

\* C23: once a notification of the run has been sent, the run makes no
\* further sink call and neither store changes.
C23_NoWriteAfterNotify ==
    [][sent # <<>> =>
          /\ bigtable' = bigtable
          /\ sheets' = sheets
          /\ (did' = did \/ sent' = <<>>)]_vars

\* C23 witness: a run wrote to a sink, its success notification raised and
\* its error notification was sent as well.
C23_Witness ==
    /\ pc = "done"
    /\ Len(sent) = 2
    /\ accepted # {}

\* C24: when a run has ended, the row of every record it fetched has been
\* written to the wide-column store in that run, whether or not an earlier
\* write of the batch raised.
C24_EveryRowWritten ==
    pc = "done" =>
        /\ (orders # <<>> => <<"bigtable", "orders">> \in accepted)
        /\ (financial_events # <<>> => <<"bigtable", "finances">> \in accepted)

\* C10 witness: a run whose order fetch failed fetched and stored financial
\* events and ended in success.
C10_Witness ==
    /\ pc = "done"
    /\ "orders" \in degraded
    /\ Len(financial_events) > 0
    /\ <<"bigtable", "finances">> \in accepted
    /\ Succeeded

----------------------------------------------------------------------------
(* The wide-column adapter on its own: a batch of (row key, record) pairs  *)
(* is written to one table once in order and then a second time, the       *)
(* second pass in any order that keeps the order of the writes of one key. *)

HarnessIdle ==
    /\ entry = "none"
    /\ cfg = [sp_api |-> TRUE, google_cloud |-> TRUE, email |-> TRUE]
    /\ notification = "unbound"
    /\ upOrders = <<>>
    /\ upEvents = <<>>
    /\ orders = <<>>
    /\ financial_events = <<>>
    /\ idx = 0
    /\ error = "none"
    /\ sent = <<>>
    /\ did = {}
    /\ accepted = {}
    /\ failedAt = {}
    /\ degraded = {}
    /\ result = NoResult
    /\ synced = FALSE
    /\ calls = <<>>
    /\ files = NoFiles
    /\ clock = Epoch
    /\ oauth = NoOAuth
    /\ runs = NoRuns

RunVars == <<entry, pc, cfg, notification, upOrders, upEvents, orders, financial_events,
             idx, error, sent, did, accepted, failedAt, degraded, result, synced>>

BTTable == "amazon_orders"

BTRecords ==
    { NormalizeOrder(RawOrders[1]),
      [NormalizeOrder(RawOrders[1]) EXCEPT !.order_status = PyStr("Pending")],
      NormalizeOrder(RawOrders[2]),
      NormalizeEvent(RawEvents[1]) }

BTPairs ==
    { <<OrderRowKey(r), r>> : r \in {x \in BTRecords : "order_id" \in DOMAIN x} }
        \cup { <<FinanceRowKey(u), r>> : u \in {1}, r \in {x \in BTRecords : "event_type" \in DOMAIN x} }
        \cup { <<OrderRowKey(NormalizeOrder(RawOrders[1])), r>> :
                    r \in {x \in BTRecords : "event_type" \in DOMAIN x} }

\* for (key, record) in batch: write_to_bigtable(table, key, record)
RECURSIVE PersistBatch(_, _, _)
PersistBatch(bt, name, B) ==
    IF Len(B) = 0 THEN bt
    ELSE PersistBatch(write_to_bigtable(bt, name, Head(B)[1], Head(B)[2]), name, Tail(B))

InitBT ==
    /\ HarnessIdle
    /\ pc = "bigtable"
    /\ bigtable = [n \in TableNames |-> NoTable]
    /\ sheets = [n \in SheetNames |-> NoSheet]
    /\ batch \in SeqsUpTo(BTPairs, MaxBatch)

BTCreate ==
    /\ ~bigtable[BTTable].exists
    /\ bigtable' = create_table(bigtable, BTTable)
    /\ UNCHANGED <<RunVars, sheets, batch, calls, files, clock, Aux>>

SecondPass == {calls[k] : k \in (Len(batch) + 1)..Len(calls)}

BTWrite(i) ==
    /\ bigtable[BTTable].exists
    /\ Len(calls) < 2 * Len(batch)
    /\ IF Len(calls) < Len(batch)
       THEN i = Len(calls) + 1
       ELSE /\ i \notin SecondPass
            /\ \A j \in 1..(i - 1) : batch[j][1] = batch[i][1] => j \in SecondPass
    /\ bigtable' = write_to_bigtable(bigtable, BTTable, batch[i][1], batch[i][2])
    /\ calls' = Append(calls, i)
    /\ UNCHANGED <<RunVars, sheets, batch, files, clock, Aux>>

NextBT == BTCreate \/ \E i \in 1..Len(batch) : BTWrite(i)

SpecBT == InitBT /\ [][NextBT]_vars

NoTables == [n \in TableNames |-> NoTable]

RecordsFor(key) == {batch[i][2] : i \in {j \in 1..Len(batch) : batch[j][1] = key}}

WrittenKeys == {batch[calls[k]][1] : k \in 1..Len(calls)}

\* C5: once the batch has been written twice the store is what writing it
\* once gives; and a key that only ever received one record holds exactly
\* that record's cells, however often and in whatever order it was written.
C5_WriteTwiceSameAsOnce ==
    /\ (Len(calls) = 2 * Len(batch) /\ bigtable[BTTable].exists) =>
            bigtable = PersistBatch(create_table(NoTables, BTTable), BTTable, batch)
    /\ \A key \in WrittenKeys :
            \A r \in RecordsFor(key) :
                RecordsFor(key) = {r} =>
                    bigtable[BTTable].rows[key] = [c \in DOMAIN r |-> <<Str(r[c])>>]

\* C5 witness: a batch of two or more rows has been written twice, the
\* second time starting with a row other than the first.
C5_Witness ==
    /\ Len(batch) >= 2
    /\ Len(calls) = 2 * Len(batch)
    /\ calls[Len(batch) + 1] # 1

----------------------------------------------------------------------------
(* The spreadsheet adapter on its own: create_or_update_sheet is called    *)
(* with any batch under one sheet name; calls keeps the last two calls.    *)

StrayCells == {<<3, 1, "old">>, <<1, ZZCols + 1, "far">>}

InitSheets == {NoSheet, EmptySheet, [exists |-> TRUE, cells |-> StrayCells]}

HarnessSheet == "Orders"

SheetBatches ==
    SeqsUpTo({NormalizeOrder(RawOrders[1]), NormalizeOrder(RawOrders[2])}, MaxBatch)
        \cup SeqsUpTo({NormalizeEvent(RawEvents[1])}, MaxBatch)

LastTwo(s) == IF Len(s) <= 2 THEN s ELSE SubSeq(s, Len(s) - 1, Len(s))

InitSheet ==
    /\ HarnessIdle
    /\ pc = "sheets"
    /\ bigtable = [n \in TableNames |-> NoTable]
    /\ sheets \in {[n \in SheetNames |-> IF n = HarnessSheet THEN s ELSE NoSheet] : s \in InitSheets}
    /\ batch = <<>>

SheetCall(name, data, outcome) ==
    /\ outcome \in SheetOutcomes(sheets, name)
    /\ sheets' = create_or_update_sheet(sheets, name, data, outcome)
    /\ calls' = LastTwo(Append(calls, [name |-> name, data |-> data, outcome |-> outcome]))
    /\ batch' = data
    /\ UNCHANGED <<RunVars, bigtable, files, clock, Aux>>

NextSheet ==
    \E data \in SheetBatches, outcome \in {"clear_raises", "update_raises", "ok"} :
        SheetCall(HarnessSheet, data, outcome)

SpecSheet == InitSheet /\ [][NextSheet]_vars

\* what the batch alone puts on an empty sheet
Rendered(data) == UpdateRange({}, Values(data))

InRange(cells) == {x \in cells : x[2] <= ZZCols}

LastCall == calls[Len(calls)]

\* C6: after a call that returned, the sheet's range A1:ZZ holds exactly
\* the header and rows of that call's batch, whatever the sheet held before
\* (so a second call with the same batch changes nothing and a call with
\* another batch leaves no cell of the earlier one); cells outside the range
\* are never touched.
C6_FullReplace ==
    [][/\ (LastCall'.outcome = "ok" =>
              InRange(sheets'[LastCall'.name].cells) = Rendered(LastCall'.data))
       /\ \A n \in SheetNames :
              sheets'[n].cells \ InRange(sheets'[n].cells) = sheets[n].cells \ InRange(sheets[n].cells)]_vars

\* C6 witness: two calls in a row under one sheet name returned, the first
\* with a longer batch than the second, and the sheet had stray content.
C6_Witness ==
    /\ Len(calls) = 2
    /\ calls[1].name = calls[2].name
    /\ calls[1].outcome = "ok"
    /\ calls[2].outcome = "ok"
    /\ Len(calls[1].data) > Len(calls[2].data)
    /\ Len(calls[2].data) > 0
    /\ \E x \in sheets[calls[2].name].cells : x[2] > ZZCols

\* C20: a call under a sheet name that does not exist returns and leaves a
\* sheet of that name holding the header and rows of the batch.
C20_CreatesAbsentSheet ==
    [][~sheets[HarnessSheet].exists =>
          /\ LastCall'.outcome = "ok"
          /\ sheets'[HarnessSheet].exists
          /\ InRange(sheets'[HarnessSheet].cells) = Rendered(LastCall'.data)]_vars

----------------------------------------------------------------------------
(* The source fetchers on their own.  The marketplace holds each record    *)
(* type as a sequence of pages; a request without NextToken is answered    *)
(* with the first page, and a NextToken when more pages follow.  batch     *)
(* holds the pages, upOrders / upEvents the payload of the response to the *)
(* one request get_orders / get_financial_events makes.                    *)

PageSize == 1

RECURSIVE Pages(_, _)
Pages(all, size) ==
    IF Len(all) <= size THEN <<all>>
    ELSE <<SubSeq(all, 1, size)>> \o Pages(SubSeq(all, size + 1, Len(all)), size)

RECURSIVE AllPages(_)
AllPages(pages) == IF pages = <<>> THEN <<>> ELSE Head(pages) \o AllPages(Tail(pages))

\* response to orders_api.get_orders(CreatedAfter=..., OrderStatuses=...) and
\* to finances_api.get_financial_events(PostedAfter=...)
Response(pages) == [payload |-> pages[1], NextToken |-> Len(pages) > 1]

FetchEvents == RawEvents \o << RawEvent(PyStr("Fee"), PyNone) >>

InitFetch ==
    /\ pc = "fetch"
    /\ batch \in { [orders |-> Pages(o, PageSize), events |-> Pages(e, PageSize)] :
                     o \in Upstreams(RawOrders, MaxOrders, FALSE),
                     e \in Upstreams(FetchEvents, MaxEvents, TRUE) }
    /\ upOrders = Response(batch.orders).payload
    /\ upEvents = Response(batch.events).payload
    /\ orders = <<>>
    /\ financial_events = <<>>
    /\ calls = <<>>
    /\ entry = "none"
    /\ cfg = [sp_api |-> TRUE, google_cloud |-> TRUE, email |-> TRUE]
    /\ notification = "unbound"
    /\ idx = 0
    /\ bigtable = [n \in TableNames |-> NoTable]
    /\ sheets = [n \in SheetNames |-> NoSheet]
    /\ error = "none"
    /\ sent = <<>>
    /\ did = {}
    /\ accepted = {}
    /\ failedAt = {}
    /\ degraded = {}
    /\ result = NoResult
    /\ synced = FALSE
    /\ files = NoFiles
    /\ clock = Epoch
    /\ oauth = NoOAuth
    /\ runs = NoRuns

Called(op) == \E k \in 1..Len(calls) : calls[k].op = op

CallOf(op) == calls[CHOOSE k \in 1..Len(calls) : calls[k].op = op]

CallGetOrders(apiRaises) ==
    /\ pc = "fetch"
    /\ ~Called("get_orders")
    /\ orders' = get_orders(upOrders, apiRaises)
    /\ calls' = Append(calls, [op |-> "get_orders", apiRaises |-> apiRaises])
    /\ UNCHANGED <<entry, pc, cfg, notification, upOrders, upEvents, financial_events, idx,
                   bigtable, sheets, error, sent, did, accepted, failedAt, degraded, result,
                   synced, batch, files, clock, Aux>>

CallGetFinancialEvents(apiRaises) ==
    /\ pc = "fetch"
    /\ ~Called("get_financial_events")
    /\ financial_events' = get_financial_events(upEvents, apiRaises)
    /\ calls' = Append(calls, [op |-> "get_financial_events", apiRaises |-> apiRaises])
    /\ UNCHANGED <<entry, pc, cfg, notification, upOrders, upEvents, orders, idx,
                   bigtable, sheets, error, sent, did, accepted, failedAt, degraded, result,
                   synced, batch, files, clock, Aux>>

NextFetch ==
    \/ \E apiRaises \in BOOLEAN : CallGetOrders(apiRaises)
    \/ \E apiRaises \in BOOLEAN : CallGetFinancialEvents(apiRaises)

SpecFetch == InitFetch /\ [][NextFetch]_vars

\* C14: when the upstream call does not fail, get_orders and
\* get_financial_events return the records of all the pages the
\* marketplace holds, in page order.
C14_AllPagesFetched ==
    /\ (Called("get_orders") /\ ~OrdersFetchFailed(AllPages(batch.orders), CallOf("get_orders").apiRaises)) =>
            orders = [i \in 1..Len(AllPages(batch.orders)) |-> NormalizeOrder(AllPages(batch.orders)[i])]
    /\ (Called("get_financial_events")
            /\ ~EventsFetchFailed(AllPages(batch.events), CallOf("get_financial_events").apiRaises)) =>
            financial_events =
                [i \in 1..Len(AllPages(batch.events)) |-> NormalizeEvent(AllPages(batch.events)[i])]

\* C15: normalisation is total: when the API call itself returns, every raw
\* record of the response yields one normalised record, whatever optional
\* fields are missing or null in it or in the records next to it.
C15_NormalizationTotal ==
    /\ (Called("get_orders") /\ ~CallOf("get_orders").apiRaises) => Len(orders) = Len(upOrders)
    /\ (Called("get_financial_events") /\ ~CallOf("get_financial_events").apiRaises) =>
            Len(financial_events) = Len(upEvents)

----------------------------------------------------------------------------
(* Flat-file adapter (CSVUtils).  A Python dict is the sequence of its     *)
(* (key, value) items in insertion order; a value is a [t, v] value, a     *)
(* list (v is its str()) or a nested dict (items).  A CSV file is its      *)
(* header (the column names) and its rows, each row the cell texts in      *)
(* header order.                                                           *)

PyList(s) == [t |-> "list", v |-> s]
PyObj(items) == [t |-> "dict", items |-> items]

Keys(d) == {d[i][1] : i \in 1..Len(d)}

Lookup(d, key) == d[CHOOSE i \in 1..Len(d) : d[i][1] = key][2]

\* dict(items): an item whose key came earlier replaces that item's value
RECURSIVE DictOf(_)
DictOf(items) ==
    IF items = <<>> THEN <<>>
    ELSE LET init == DictOf(SubSeq(items, 1, Len(items) - 1))
             last == items[Len(items)]
         IN  IF last[1] \in Keys(init)
             THEN [i \in 1..Len(init) |-> IF init[i][1] = last[1] THEN last ELSE init[i]]
             ELSE Append(init, last)

\* the `items` list _flatten_dict builds: one item per leaf, in order
RECURSIVE FlattenItems(_, _, _)
FlattenItems(data, parent_key, separator) ==
    IF data = <<>> THEN <<>>
    ELSE LET key == Head(data)[1]
             value == Head(data)[2]
             new_key == IF parent_key # "" THEN parent_key \o separator \o key ELSE key
             here == IF value.t = "dict"
                     THEN DictOf(FlattenItems(value.items, new_key, separator))
                     ELSE IF value.t = "list"
                          THEN << <<new_key, PyStr(Str(value))>> >>
                          ELSE << <<new_key, value>> >>
         IN  here \o FlattenItems(Tail(data), parent_key, separator)

flatten_dict(data, parent_key, separator) == DictOf(FlattenItems(data, parent_key, separator))

\* default of the `separator` parameter
Separator == "_"

\* the order of str under sorted(), on the keys the sample records flatten to
SortOrder == << "items", "order_id", "order_total", "shipping_address_City" >>

KeyRank(key) == CHOOSE i \in 1..Len(SortOrder) : SortOrder[i] = key

Sorted(S) ==
    [i \in 1..Cardinality(S) |->
        CHOOSE k \in S : Cardinality({j \in S : KeyRank(j) < KeyRank(k)}) = i - 1]

\* fieldnames taken from the first record only
FieldnamesOfFirst(processed) == Keys(processed[1])

\* fieldnames = set(); for item in processed_data: fieldnames.update(item.keys())
Fieldnames(processed) == UNION {Keys(processed[i]) : i \in 1..Len(processed)}

\* what csv.writer writes for a value: '' for None, str(value) otherwise
CellText(value) == IF value.t = "none" THEN "" ELSE Str(value)

\* DictWriter._dict_to_list: rowdict.get(key, restval) for key in fieldnames
Row(fieldnames, rowdict) ==
    [j \in 1..Len(fieldnames) |->
        IF fieldnames[j] \in Keys(rowdict) THEN CellText(Lookup(rowdict, fieldnames[j])) ELSE ""]

\* strftime('%Y%m%d_%H%M%S'): the time of day to the second
Timestamp(now) == now.sec

\* f"{filename}_{timestamp}.csv" under output_dir
Filepath(filename, now) == <<filename, Timestamp(now)>>

Put(fs, filepath, file) ==
    [f \in DOMAIN fs \cup {filepath} |-> IF f = filepath THEN file ELSE fs[f]]

Processed(data) == [i \in 1..Len(data) |-> flatten_dict(data[i], "", Separator)]

write_to_csv(fs, data, filename, now) ==
    IF data = <<>> THEN fs
    ELSE LET processed_data == Processed(data)
             fieldnames == Sorted(Fieldnames(processed_data))
         IN  Put(fs, Filepath(filename, now),
                 [header |-> fieldnames,
                  rows |-> [i \in 1..Len(data) |-> Row(fieldnames, processed_data[i])]])

\* DictWriter with extrasaction='raise': the first row with a key outside
\* fieldnames raises ValueError (0 when no row does)
FirstWrong(fieldnames, processed) ==
    LET wrong == {i \in 1..Len(processed) :
                     Keys(processed[i]) \ {fieldnames[j] : j \in 1..Len(fieldnames)} # {}}
    IN  IF wrong = {} THEN 0 ELSE CHOOSE i \in wrong : \A k \in wrong : i <= k

AppendRaises(fs, data, filepath) ==
    /\ data # <<>>
    /\ filepath \in DOMAIN fs
    /\ FirstWrong(fs[filepath].header, Processed(data)) # 0

\* writerows hands the rows to the file one by one: the rows before the one
\* that raises are already written
append_to_csv(fs, data, filepath) ==
    IF data = <<>> THEN fs
    ELSE LET processed_data == Processed(data)
             file_exists == filepath \in DOMAIN fs
             fieldnames == IF file_exists THEN fs[filepath].header
                           ELSE Sorted(Fieldnames(processed_data))
             wrong == FirstWrong(fieldnames, processed_data)
             n == IF wrong = 0 THEN Len(data) ELSE wrong - 1
             old == IF file_exists THEN fs[filepath].rows ELSE <<>>
         IN  Put(fs, filepath,
                 [header |-> fieldnames,
                  rows |-> old \o [i \in 1..n |-> Row(fieldnames, processed_data[i])]])

\* csv.DictReader: every row as a dict from the header's names to the cells
ReadCsv(file) ==
    [i \in 1..Len(file.rows) |->
        [j \in 1..Len(file.header) |-> <<file.header[j], file.rows[i][j]>>]]

----------------------------------------------------------------------------
(* The flat-file adapter on its own: two calls in a row, each write_to_csv *)
(* under the prefix main_csv.py uses for orders or append_to_csv to a path, *)
(* with any batch of the sample records; calls logs them.                  *)

CsvRecords ==
    { << <<"order_id", PyStr("A1")>>,
         <<"shipping_address", PyObj(<< <<"City", PyStr("X")>> >>)>> >>,
      << <<"order_id", PyStr("A2")>>,
         <<"order_total", PyNone>>,
         <<"items", PyList("['a', 'b']")>> >>,
      << <<"shipping_address_City", PyStr("Y")>>,
         <<"shipping_address", PyObj(<< <<"City", PyStr("Z")>> >>)>> >> }

CsvBatches == SeqsUpTo(CsvRecords, MaxBatch)

CsvPrefix == "amazon_orders"

\* a path write_to_csv never produces
OtherPath == <<"export", 0>>

NoPath == <<>>

\* datetime.now() read again: within the same second, or in the next one
Advance(now, step) ==
    IF step = "same_second"
    THEN [now EXCEPT !.frac = now.frac + 1]
    ELSE [sec |-> now.sec + 1, frac |-> 0]

NextCall(p) == IF p = "csv" THEN "csv_second" ELSE "csv_done"

InitCsv ==
    /\ HarnessIdle
    /\ pc = "csv"
    /\ bigtable = [n \in TableNames |-> NoTable]
    /\ sheets = [n \in SheetNames |-> NoSheet]
    /\ batch = <<>>

CsvWrite(data, step) ==
    /\ pc \in {"csv", "csv_second"}
    /\ pc' = NextCall(pc)
    /\ clock' = Advance(clock, step)
    /\ files' = write_to_csv(files, data, CsvPrefix, clock')
    /\ calls' = Append(calls, [op |-> "write", data |-> data, raised |-> FALSE,
                               path |-> IF data = <<>> THEN NoPath
                                        ELSE Filepath(CsvPrefix, clock')])
    /\ batch' = data
    /\ UNCHANGED <<entry, cfg, notification, upOrders, upEvents, orders, financial_events,
                   idx, bigtable, sheets, error, sent, did, accepted, failedAt, degraded,
                   result, synced, Aux>>

CsvAppend(data, filepath) ==
    /\ pc \in {"csv", "csv_second"}
    /\ pc' = NextCall(pc)
    /\ files' = append_to_csv(files, data, filepath)
    /\ calls' = Append(calls, [op |-> "append", data |-> data,
                               raised |-> AppendRaises(files, data, filepath),
                               path |-> filepath])
    /\ batch' = data
    /\ UNCHANGED <<entry, cfg, notification, upOrders, upEvents, orders, financial_events,
                   idx, bigtable, sheets, error, sent, did, accepted, failedAt, degraded,
                   result, synced, clock, Aux>>

NextCsv ==
    \/ \E data \in CsvBatches, step \in {"same_second", "next_second"} : CsvWrite(data, step)
    \/ \E data \in CsvBatches, filepath \in DOMAIN files \cup {OtherPath} : CsvAppend(data, filepath)

SpecCsv == InitCsv /\ [][NextCsv]_vars

\* C16: a write_to_csv call with a non-empty batch creates a file that did
\* not exist and leaves every file of an earlier call as it was.
C16_NeverOverwrites ==
    [][(LastCall'.op = "write" /\ LastCall'.data # <<>>) =>
          /\ LastCall'.path \notin DOMAIN files
          /\ \A f \in DOMAIN files : files'[f] = files[f]]_vars

\* C17: append_to_csv to an existing file never fails on a key the header
\* does not have: the call returns, the file gains one row per record, and
\* reading it back gives every key of every appended record its value.
C17_AppendUnionsHeader ==
    [][(LastCall'.op = "append" /\ LastCall'.data # <<>> /\ LastCall'.path \in DOMAIN files) =>
          LET data == Processed(LastCall'.data)
              old == Len(files[LastCall'.path].rows)
              back == ReadCsv(files'[LastCall'.path])
          IN  /\ ~LastCall'.raised
              /\ Len(back) = old + Len(data)
              /\ \A i \in 1..Len(data) : \A key \in Keys(data[i]) :
                     /\ key \in Keys(back[old + i])
                     /\ Lookup(back[old + i], key) = CellText(Lookup(data[i], key))]_vars

\* C18: after write_to_csv, reading the file back gives, for every record,
\* the text of every leaf field under its dotted-path key (a list as its
\* str()), and no two leaf fields of one record share a column.
C18_RoundTrip ==
    (calls # <<>> /\ LastCall.op = "write" /\ LastCall.data # <<>>) =>
        LET back == ReadCsv(files[LastCall.path])
        IN  \A i \in 1..Len(LastCall.data) :
                LET leaves == FlattenItems(LastCall.data[i], "", ".")
                    columns == FlattenItems(LastCall.data[i], "", Separator)
                IN  /\ \A a \in 1..Len(leaves) :
                           /\ leaves[a][1] \in Keys(back[i])
                           /\ Lookup(back[i], leaves[a][1]) = CellText(leaves[a][2])
                    /\ \A a, b \in 1..Len(columns) : a # b => columns[a][1] # columns[b][1]

Orderings(n) == {p \in [1..n -> 1..n] : \A a, b \in 1..n : a # b => p[a] # p[b]}

\* C19: the header of a file written by write_to_csv is the set of all keys
\* of the flattened records, each once, in sorted order, and is the same
\* for every order of the records.
C19_HeaderIsSortedUnion ==
    (calls # <<>> /\ LastCall.op = "write" /\ LastCall.data # <<>>) =>
        LET data == LastCall.data
            header == files[LastCall.path].header
        IN  /\ {header[j] : j \in 1..Len(header)} =
                   UNION {Keys(flatten_dict(data[i], "", Separator)) : i \in 1..Len(data)}
            /\ \A a, b \in 1..Len(header) : a < b => KeyRank(header[a]) < KeyRank(header[b])
            /\ \A p \in Orderings(Len(data)) :
                   write_to_csv(NoFiles, [i \in 1..Len(data) |-> data[p[i]]],
                                CsvPrefix, clock)[Filepath(CsvPrefix, clock)].header = header

\* C19 witness: a file was written from two records with different keys.
C19_Witness ==
    /\ calls # <<>>
    /\ LastCall.op = "write"
    /\ Len(LastCall.data) = 2
    /\ Keys(flatten_dict(LastCall.data[1], "", Separator))
           # Keys(flatten_dict(LastCall.data[2], "", Separator))
    /\ Len(files[LastCall.path].header) > Cardinality(Keys(flatten_dict(LastCall.data[1], "", Separator)))

----------------------------------------------------------------------------
(* Further properties of the orchestrators, checked under Spec.            *)

ReportsSuccess == Succeeded \/ \E i \in 1..Len(sent) : sent[i].subject = Completed

\* C26: a run that reported success had no sink call raise, and every sink
\* the run targets accepted every record it fetched: each order's row key is
\* in amazon_orders, amazon_finances has rows when events were fetched, and
\* in main each sheet holds the header and rows of its batch.
C26_SuccessMeansCommitted ==
    (pc = "done" /\ ReportsSuccess) =>
        /\ failedAt = {}
        /\ (orders # <<>> => <<"bigtable", "orders">> \in accepted)
        /\ (financial_events # <<>> => <<"bigtable", "finances">> \in accepted)
        /\ \A i \in 1..Len(orders) :
               OrderRowKey(orders[i]) \in DOMAIN bigtable["amazon_orders"].rows
        /\ (financial_events # <<>> => DOMAIN bigtable["amazon_finances"].rows # {})
        /\ (entry = "main" =>
               /\ {<<"sheets", "orders">>, <<"sheets", "finances">>} \subseteq accepted
               /\ InRange(sheets["Orders"].cells) = Rendered(orders)
               /\ InRange(sheets["Finances"].cells) = Rendered(financial_events))

\* C26 witness: a run of main that fetched orders and events ended in success.
C26_Witness ==
    /\ pc = "done"
    /\ entry = "main"
    /\ Succeeded
    /\ orders # <<>>
    /\ financial_events # <<>>

----------------------------------------------------------------------------
(* The orchestrators over an upstream in which more than one order lacks   *)
(* its AmazonOrderId.                                                      *)

KeyOrders ==
    << RawOrders[1],
       RawOrders[2],
       RawOrder(Missing, PyStr("Shipped"), PyDict("7"), Missing) >>

InitKeys ==
    /\ entry = "none"
    /\ pc = "start"
    /\ cfg = [sp_api |-> TRUE, google_cloud |-> TRUE, email |-> TRUE]
    /\ notification = "unbound"
    /\ upOrders \in Upstreams(KeyOrders, MaxOrders, FALSE)
    /\ upEvents \in {<<>>, <<RawEvents[1]>>}
    /\ orders = <<>>
    /\ financial_events = <<>>
    /\ idx = 0
    /\ bigtable = [n \in TableNames |-> NoTable]
    /\ sheets = [n \in SheetNames |-> EmptySheet]
    /\ error = "none"
    /\ sent = <<>>
    /\ did = {}
    /\ accepted = {}
    /\ failedAt = {}
    /\ degraded = {}
    /\ result = NoResult
    /\ synced = FALSE
    /\ batch = <<>>
    /\ calls = <<>>
    /\ files = NoFiles
    /\ clock = Epoch
    /\ oauth = NoOAuth
    /\ runs = NoRuns

SpecKeys == InitKeys /\ [][Next]_vars

\* C27: after a successful run that fetched the upstream's orders, the
\* amazon_orders table holds one row per fetched order (the fetched orders
\* are pairwise different).
C27_OneRowPerOrder ==
    (pc = "done" /\ Succeeded /\ "orders" \notin degraded) =>
        Cardinality(DOMAIN bigtable["amazon_orders"].rows) = Len(orders)

----------------------------------------------------------------------------
(* Error atomicity of the spreadsheet adapter, checked under SpecSheet.    *)

\* C30: a create_or_update_sheet call that raises leaves every sheet with
\* the content it had before the call.
C30_RaisingCallChangesNothing ==
    [][LastCall'.outcome # "ok" => sheets' = sheets]_vars

----------------------------------------------------------------------------
(* scripts/get_refresh_token.py: get_refresh_token.  The main thread       *)
(* creates the callback server, starts a thread that runs                  *)
(* server.handle_request (one request), joins it for at most five minutes, *)
(* exchanges the captured code for a token and, in its finally block,      *)
(* calls server.shutdown().  batch holds the requests that reach the       *)
(* server during the wait, in order: each is the value of its              *)
(* spapi_oauth_code parameter, or "absent".                                *)

MaxRequests == 3

Requests == {"absent", "code1"}

\* OAuthCallbackHandler.do_GET: the class attribute after the request
do_GET(authorization_code, request) ==
    IF request # "absent" THEN request ELSE authorization_code

TokenResult(value) == [kind |-> "return", status |-> value, err |-> "none", body |-> NoMessage]

ExchangeOutcomes == {"200_token", "200_no_token", "non_200", "exception"}

\* what the try block hands to `return` for an outcome of requests.post
Returned(outcome) == IF outcome = "200_token" THEN "Atzr|token" ELSE "None"

InitToken ==
    /\ pc = "token_start"
    /\ batch \in SeqsUpTo(Requests, MaxRequests)
    /\ oauth = NoOAuth
    /\ runs = NoRuns
    /\ calls = <<>>
    /\ files = NoFiles
    /\ clock = Epoch
    /\ entry = "none"
    /\ cfg = [sp_api |-> TRUE, google_cloud |-> TRUE, email |-> TRUE]
    /\ notification = "unbound"
    /\ upOrders = <<>>
    /\ upEvents = <<>>
    /\ orders = <<>>
    /\ financial_events = <<>>
    /\ idx = 0
    /\ bigtable = [n \in TableNames |-> NoTable]
    /\ sheets = [n \in SheetNames |-> NoSheet]
    /\ error = "none"
    /\ sent = <<>>
    /\ did = {}
    /\ accepted = {}
    /\ failedAt = {}
    /\ degraded = {}
    /\ result = NoResult
    /\ synced = FALSE

TokenIdle == <<entry, cfg, notification, upOrders, upEvents, orders, financial_events, idx,
               bigtable, sheets, error, sent, did, accepted, failedAt, degraded, synced,
               batch, calls, files, clock, runs>>

\* lines 193-221: the marketplace lookup, HTTPServer(('localhost', 8000), ...)
\* (raises OSError when the port cannot be bound) and the thread start
TokenStart(known, bindOk) ==
    /\ pc = "token_start"
    /\ IF ~known
       THEN /\ result' = TokenResult("None")
            /\ pc' = "token_done"
            /\ oauth' = oauth
       ELSE IF ~bindOk
            THEN /\ result' = [kind |-> "raise", status |-> "none", err |-> "OSError",
                               body |-> NoMessage]
                 /\ pc' = "token_done"
                 /\ oauth' = oauth
            ELSE /\ oauth' = [oauth EXCEPT !.thread = "handle_request"]
                 /\ pc' = "join"
                 /\ result' = result
    /\ UNCHANGED TokenIdle

\* the server thread: handle_request serves the next request with do_GET and
\* returns, which ends the thread
HandleRequest ==
    /\ oauth.thread = "handle_request"
    /\ oauth.handled < Len(batch)
    /\ oauth' = [oauth EXCEPT
                    !.authorization_code = do_GET(@, batch[oauth.handled + 1]),
                    !.handled = @ + 1,
                    !.thread = "exited"]
    /\ UNCHANGED <<pc, result, TokenIdle>>

\* server_thread.join(timeout=300) returns when the thread has ended or,
\* with no request left to arrive within the wait, at the timeout; then the
\* check of the captured code (lines 235-247)
Join ==
    /\ pc = "join"
    /\ oauth.thread = "exited" \/ oauth.handled = Len(batch)
    /\ IF oauth.authorization_code = "None"
       THEN /\ result' = TokenResult("None")
            /\ pc' = "token_done"
       ELSE /\ result' = result
            /\ pc' = "exchange"
    /\ UNCHANGED <<oauth, TokenIdle>>

\* lines 250-285: requests.post and the three ways the try block ends, each
\* with a return that the finally block precedes
Exchange(outcome) ==
    /\ pc = "exchange"
    /\ oauth' = [oauth EXCEPT !.exchange = outcome, !.pending = Returned(outcome)]
    /\ pc' = "finally"
    /\ UNCHANGED <<result, TokenIdle>>

\* lines 286-287: server.shutdown() sets the shutdown request and waits for
\* the event that only serve_forever sets when it leaves its loop
Shutdown ==
    /\ pc = "finally"
    /\ oauth' = [oauth EXCEPT !.shutdown_request = TRUE]
    /\ IF oauth.is_shut_down
       THEN /\ pc' = "token_done"
            /\ result' = TokenResult(oauth.pending)
       ELSE /\ pc' = "shutdown_wait"
            /\ result' = result
    /\ UNCHANGED TokenIdle

NextToken ==
    \/ \E known \in BOOLEAN, bindOk \in BOOLEAN : TokenStart(known, bindOk)
    \/ HandleRequest
    \/ Join
    \/ \E outcome \in ExchangeOutcomes : Exchange(outcome)
    \/ Shutdown

SpecToken == InitToken /\ [][NextToken]_vars

\* C25: once the token exchange has been attempted the function returns to
\* its caller: it is never left waiting inside server.shutdown(), and it
\* hands back the token or None.
C25_ReturnsAfterExchange ==
    oauth.exchange # "none" =>
        /\ pc # "shutdown_wait"
        /\ (pc = "token_done" => result = TokenResult(oauth.pending))

\* C28: when a request carrying spapi_oauth_code reached the server within
\* the wait, the function does not end without having captured the code and
\* attempted the exchange, whatever requests came before it; and a request
\* without the parameter leaves the stored code as it was.
C28_CallbackCaptured ==
    [][/\ (pc' = "token_done" /\ oauth'.thread # "not_started"
              /\ \E i \in 1..Len(batch) : batch[i] # "absent") =>
              (oauth'.authorization_code # "None" /\ oauth'.exchange # "none")
       /\ (oauth'.handled # oauth.handled /\ batch[oauth'.handled] = "absent") =>
              oauth'.authorization_code = oauth.authorization_code]_vars

----------------------------------------------------------------------------
(* Overlapping runs inside create_table.  Each run calls create_table for  *)
(* amazon_orders and then for amazon_finances; a call is two requests,     *)
(* table.exists() and, when that answered False, table.create(); the       *)
(* requests of different runs interleave.  The create request of a table   *)
(* that exists is rejected (AlreadyExists) and the call raises.            *)

NumRuns == 3

RunIds == 1..NumRuns

TableOrder == <<"amazon_orders", "amazon_finances">>

\* table.create(column_families={'data': MaxVersionsGCRule(1)}) on an absent table
table_create(bt, name) ==
    [bt EXCEPT ![name] = [exists |-> TRUE, maxv |-> MaxVersions, rows |-> <<>>]]

SomeRow == ("order_A1" :> [order_status |-> <<"Shipped">>])

InitTables == {NoTable,
               [exists |-> TRUE, maxv |-> MaxVersions, rows |-> <<>>],
               [exists |-> TRUE, maxv |-> MaxVersions, rows |-> SomeRow]}

InitRace ==
    /\ pc = "race"
    /\ bigtable \in [TableNames -> InitTables]
    /\ runs = [r \in RunIds |-> [call |-> 1, at |-> "exists"]]
    /\ oauth = NoOAuth
    /\ batch = <<>>
    /\ calls = <<>>
    /\ files = NoFiles
    /\ clock = Epoch
    /\ entry = "none"
    /\ cfg = [sp_api |-> TRUE, google_cloud |-> TRUE, email |-> TRUE]
    /\ notification = "unbound"
    /\ upOrders = <<>>
    /\ upEvents = <<>>
    /\ orders = <<>>
    /\ financial_events = <<>>
    /\ idx = 0
    /\ sheets = [n \in SheetNames |-> NoSheet]
    /\ error = "none"
    /\ sent = <<>>
    /\ did = {}
    /\ accepted = {}
    /\ failedAt = {}
    /\ degraded = {}
    /\ result = NoResult
    /\ synced = FALSE

\* where a run is once its current create_table call has returned
AfterCall(run) ==
    IF run.call = Len(TableOrder)
    THEN [run EXCEPT !.at = "returned"]
    ELSE [call |-> run.call + 1, at |-> "exists"]

\* if not table.exists():
RaceExists(r) ==
    /\ pc = "race"
    /\ runs[r].at = "exists"
    /\ runs' = [runs EXCEPT ![r] = IF bigtable[TableOrder[runs[r].call]].exists
                                   THEN AfterCall(runs[r])
                                   ELSE [runs[r] EXCEPT !.at = "create"]]
    /\ UNCHANGED <<RunVars, bigtable, sheets, batch, calls, files, clock, oauth>>

\* table.create(column_families=column_families); return table
RaceCreate(r) ==
    /\ pc = "race"
    /\ runs[r].at = "create"
    /\ IF bigtable[TableOrder[runs[r].call]].exists
       THEN /\ runs' = [runs EXCEPT ![r].at = "raised"]
            /\ bigtable' = bigtable
       ELSE /\ runs' = [runs EXCEPT ![r] = AfterCall(runs[r])]
            /\ bigtable' = table_create(bigtable, TableOrder[runs[r].call])
    /\ UNCHANGED <<RunVars, sheets, batch, calls, files, clock, oauth>>

NextRace == \E r \in RunIds : RaceExists(r) \/ RaceCreate(r)

SpecRace == InitRace /\ [][NextRace]_vars

\* C29: no create_table call of overlapping runs raises: every run gets
\* through both calls, and both tables exist once all runs have returned.
C29_OverlappingCreateIsSafe ==
    /\ \A r \in RunIds : runs[r].at # "raised"
    /\ (\A r \in RunIds : runs[r].at = "returned") => \A t \in TableNames : bigtable[t].exists
====
